---- MODULE Spec2Model ----
(***************************************************************************)
(* Model of the control service's post-call pipeline                       *)
(* (src/control/app.py): the LiveKit webhook handler with its              *)
(* processed_egresses deduplication set, the background process_recording  *)
(* runs (locate, fetch, split, transcribe, merge, deliver) and the         *)
(* active_sessions table written by dial_lead; and of the voice agent's    *)
(* session (src/src/agent.py, entrypoint): the greeting and recording      *)
(* start, the room event handlers and the cleanup on disconnect.           *)
(*                                                                         *)
(* Strings that the code takes apart (storage locations, transcript text)  *)
(* are sequences of tokens; times are integer milliseconds, as the         *)
(* transcription service reports them.                                     *)
(***************************************************************************)
EXTENDS Integers, Sequences, FiniteSets, TLC

VARIABLES
    ASSEMBLYAI_API_KEY,     \* TRUE iff the transcription credential is set
    POST_CALL_WEBHOOK_URL,  \* TRUE iff the delivery endpoint is set
    processed_egresses,     \* the module-level set of handled egress ids
    active_sessions,        \* room name -> caller metadata
    nreq,                   \* number of webhook requests received so far
    inflight,               \* number of handlers suspended in "await request.json()"
    responses,              \* the responses returned so far, in order
    runs,                   \* the background tasks, in scheduling order
    loop,                   \* index of the run executing synchronous code, 0 if none
    call,                   \* one call of the grouping or of the merger on its own
    RECORDING_ENABLED,      \* agent: TRUE iff the STORAGE_* settings are all set
    initial_greeting_enabled, \* agent: room metadata "initial_greeting"
    entry,                  \* agent: how far entrypoint has come
    participant,            \* agent: the remote participant of the room
    greeting_said,          \* agent: greeting_said["value"]
    egress_started,         \* agent: egress_started["value"]
    egress_stopped,         \* agent: egress_stopped["value"]
    current_egress_id,      \* agent: current_egress_id["value"]
    tasks,                  \* agent: the tasks made by asyncio.create_task, in order
    requests,               \* agent: the requests sent to the platform, in order
    egresses,               \* agent: the egress ids the platform has started
    observed,               \* agent: the sip.callStatus values the agent has read
    nevents                 \* agent: number of room events so far

agent == <<RECORDING_ENABLED, initial_greeting_enabled, entry, participant,
           greeting_said, egress_started, egress_stopped, current_egress_id,
           tasks, requests, egresses, observed, nevents>>

vars == <<ASSEMBLYAI_API_KEY, POST_CALL_WEBHOOK_URL, processed_egresses,
          active_sessions, nreq, inflight, responses, runs, loop, call,
          agent>>

----------------------------------------------------------------------------
(* Bounds of the model *)

MaxRequests == 2
MaxWords == 3
MaxSegments == 2

----------------------------------------------------------------------------
(* Sequence helpers *)

Last(s) == s[Len(s)]

StartsWith(s, p) ==
    /\ Len(s) >= Len(p)
    /\ SubSeq(s, 1, Len(p)) = p

\* Positions at which p occurs in s as a contiguous slice.
Occurrences(s, p) ==
    {i \in 1..(Len(s) - Len(p) + 1) : SubSeq(s, i, i + Len(p) - 1) = p}

Contains(s, p) == Occurrences(s, p) # {}

\* F applied to the value of v, v evaluated once: how a local variable
\* holds the result of a call.
Bind(v, F(_)) == CHOOSE r \in {F(x) : x \in {v}} : TRUE

Min(S) == CHOOSE x \in S : \A y \in S : x <= y

\* str.split(sep, 1): the part before the first sep and, if there is one,
\* the part after it.
SplitOnce(s, sep) ==
    IF Contains(s, sep)
    THEN LET i == Min(Occurrences(s, sep))
         IN  <<SubSeq(s, 1, i - 1), SubSeq(s, i + Len(sep), Len(s))>>
    ELSE <<s>>

\* str.split(marker)[1]: what lies between the first and the second
\* occurrence of the marker (or the end).
AfterMarker(s, marker) ==
    LET rest == SplitOnce(s, marker)[2]
    IN  SplitOnce(rest, marker)[1]

----------------------------------------------------------------------------
(* Storage locations (process_recording, lines 278-293) *)

S3Scheme == <<"s3:", "/", "/">>
SupabaseHost == <<".supabase.co">>
S3Marker == <<"/", "storage", "/", "v1", "/", "s3", "/">>
PublicMarker == <<"/", "storage", "/", "v1", "/", "object", "/", "public", "/">>
Slash == <<"/">>

S3Url == <<"s3:", "/", "/", "Recordings", "/", "call_1", "/", "rec.ogg">>
SupabaseUrl ==
    <<"https:", "/", "/", "proj", ".supabase.co", "/", "storage", "/", "v1",
      "/", "s3", "/", "Recordings", "/", "rec.ogg">>
HttpUrl == <<"https:", "/", "/", "example.com", "/", "rec.ogg">>
\* A direct-path location that names a bucket and nothing else.
S3BucketOnlyUrl == <<"s3:", "/", "/", "Recordings">>

BucketKey(path) ==
    LET parts == SplitOnce(path, Slash)
    IN  [bucket |-> parts[1],
         key    |-> IF Len(parts) > 1 THEN parts[2] ELSE <<>>]

\* The two accepted formats; anything else is "Unknown URL format".
ParseLocation(file_url) ==
    IF StartsWith(file_url, S3Scheme)
    THEN [ok |-> TRUE] @@ BucketKey(SubSeq(file_url, 4, Len(file_url)))
    ELSE IF Contains(file_url, SupabaseHost) /\ Contains(file_url, S3Marker)
    THEN [ok |-> TRUE] @@ BucketKey(AfterMarker(file_url, S3Marker))
    ELSE [ok |-> FALSE, bucket |-> <<>>, key |-> <<>>]

----------------------------------------------------------------------------
(* Per-channel transcription: grouping words into segments (lines 140-172) *)

SegmentGapMs == 1000
MergeGapMs == 1000

\* A time of t milliseconds stands for the double t / 1000.0 the code
\* computes with (word.start / 1000.0). The difference of two such doubles
\* is rounded again: where the times are exactly one second apart it can
\* come out one unit in the last place above or below 1.0. The pairs
\* <<later, earlier>> for which it does, among the times on the 100 ms grid
\* up to 4 s and the other times the inputs below use (IEEE 754 binary64,
\* e.g. 2.2 - 1.2 = 1.0000000000000002 and 1.4 - 0.4 = 0.9999999999999999).
DifferenceRoundsUp == { <<2200, 1200>>, <<2700, 1700>> }
DifferenceRoundsDown ==
    { <<1400, 400>>, <<1900, 900>>, <<2300, 1300>>, <<2800, 1800>>,
      <<1396, 396>> }

\* later - earlier > limit, in doubles (limit is one second).
GapExceeds(later, earlier, limit) ==
    \/ later - earlier > limit
    \/ later - earlier = limit /\ <<later, earlier>> \in DifferenceRoundsUp

\* later - earlier < limit, in doubles (limit is one second).
GapBelow(later, earlier, limit) ==
    \/ later - earlier < limit
    \/ later - earlier = limit /\ <<later, earlier>> \in DifferenceRoundsDown

NewSegment(speaker, word) ==
    [speaker |-> speaker, t_start |-> word.start, t_end |-> word.end,
     text |-> <<word.text>>]

\* Faulty variant of the iteration (it breaks C21): a continuing word moves
\* the start of the segment instead of its end.
GroupStepMovesStart(st, speaker, word) ==
    IF st.current = <<>>
    THEN [segments |-> st.segments, current |-> <<NewSegment(speaker, word)>>]
    ELSE LET cur == st.current[1]
         IN  IF GapExceeds(word.start, cur.t_end, SegmentGapMs)
             THEN [segments |-> Append(st.segments, cur),
                   current  |-> <<NewSegment(speaker, word)>>]
             ELSE [segments |-> st.segments,
                   current  |-> <<[cur EXCEPT !.t_start = word.start,
                                              !.text = @ \o <<" ", word.text>>]>>]

\* One iteration of the loop over transcript.words; st.current is <<>> for
\* None and <<segment>> otherwise.
GroupStep(st, speaker, word) ==
    IF st.current = <<>>
    THEN [segments |-> st.segments, current |-> <<NewSegment(speaker, word)>>]
    ELSE LET cur == st.current[1]
         IN  IF GapExceeds(word.start, cur.t_end, SegmentGapMs)
             THEN [segments |-> Append(st.segments, cur),
                   current  |-> <<NewSegment(speaker, word)>>]
             ELSE [segments |-> st.segments,
                   current  |-> <<[cur EXCEPT !.t_end = word.end,
                                              !.text = @ \o <<" ", word.text>>]>>]

RECURSIVE GroupLoop(_, _, _)
GroupLoop(st, speaker, words) ==
    IF words = <<>> THEN st
    ELSE Bind(GroupStep(st, speaker, Head(words)),
              LAMBDA next : GroupLoop(next, speaker, Tail(words)))

GroupWords(words, speaker) ==
    Bind(GroupLoop([segments |-> <<>>, current |-> <<>>], speaker, words),
         LAMBDA st : st.segments \o st.current)

\* What the transcription service can answer for one channel.
WordsA == << [start |-> 0, end |-> 300, text |-> "Hi"],
             [start |-> 400, end |-> 700, text |-> "there"] >>
WordsB == << [start |-> 500, end |-> 900, text |-> "Hello"],
             [start |-> 2100, end |-> 2500, text |-> "bye"] >>
WordsOf(speaker) == IF speaker = "ai" THEN WordsA ELSE WordsB
ServiceAnswers(speaker) ==
    { [status |-> "raise", words |-> <<>>],
      [status |-> "error", words |-> <<>>],
      [status |-> "completed", words |-> WordsOf(speaker)] }
NoAnswer == [status |-> "not_called", words |-> <<>>]

\* transcribe_with_assemblyai: [] without a key, on an error status and on
\* any exception; the grouped segments otherwise.
TranscribeWithAssemblyai(haveKey, answer, speaker) ==
    IF ~haveKey THEN <<>>
    ELSE IF answer.status # "completed" THEN <<>>
    ELSE GroupWords(answer.words, speaker)

----------------------------------------------------------------------------
(* Transcript merger (lines 179-221) *)

\* The times below 100 ms and halfway between two hundredths of a second
\* whose double lies below the halfway point, so that round(..., 2) goes
\* down: round(0.015, 2) = 0.01, while round(0.005, 2) = 0.01 goes up.
HalfwayRoundsDown == {15, 45, 75}

\* round(seconds, 2), in units of 10 ms; exact for every time that is not
\* halfway between two hundredths and for the halfway times below 100 ms.
Round2(ms) ==
    IF ms \in HalfwayRoundsDown THEN ms \div 10 ELSE (ms + 5) \div 10

RECURSIVE Strip(_)
Strip(text) ==
    IF text = <<>> THEN text
    ELSE IF Head(text) = " " THEN Strip(Tail(text))
    ELSE IF Last(text) = " " THEN Strip(SubSeq(text, 1, Len(text) - 1))
    ELSE text

\* Faulty variant of the key (it breaks C20): the speaker is part of it.
DedupKeyWithSpeaker(seg) ==
    <<Round2(seg.t_start), Round2(seg.t_end), Strip(seg.text), seg.speaker>>

DedupKey(seg) == <<Round2(seg.t_start), Round2(seg.t_end), Strip(seg.text)>>

RECURSIVE Deduplicate(_, _)
Deduplicate(segs, seen) ==
    IF segs = <<>> THEN <<>>
    ELSE IF DedupKey(Head(segs)) \in seen
         THEN Deduplicate(Tail(segs), seen)
         ELSE <<Head(segs)>> \o
              Deduplicate(Tail(segs), seen \cup {DedupKey(Head(segs))})

\* list.sort(key=t_start) is stable: an element goes after every element
\* whose start is not greater.
RECURSIVE InsertByStart(_, _)
InsertByStart(sorted, seg) ==
    IF sorted = <<>> THEN <<seg>>
    ELSE IF Last(sorted).t_start <= seg.t_start THEN Append(sorted, seg)
    ELSE Append(InsertByStart(SubSeq(sorted, 1, Len(sorted) - 1), seg),
                Last(sorted))

\* Faulty variant of the sort (it breaks C17): the order is left as it is.
SortByStartKeepsOrder(segs) == segs

RECURSIVE SortByStart(_)
SortByStart(segs) ==
    IF segs = <<>> THEN <<>>
    ELSE Bind(SortByStart(SubSeq(segs, 1, Len(segs) - 1)),
              LAMBDA sorted : InsertByStart(sorted, Last(segs)))

MergeStep(merged, seg) ==
    IF merged = <<>> THEN <<seg>>
    ELSE LET last == Last(merged)
         IN  IF /\ last.speaker = seg.speaker
                /\ GapBelow(seg.t_start, last.t_end, MergeGapMs)
             THEN [merged EXCEPT ![Len(merged)] =
                      [last EXCEPT !.text = @ \o <<" ">> \o seg.text,
                                   !.t_end = seg.t_end]]
             ELSE Append(merged, seg)

RECURSIVE MergeLoop(_, _)
MergeLoop(merged, segs) ==
    IF segs = <<>> THEN merged
    ELSE Bind(MergeStep(merged, Head(segs)),
              LAMBDA next : MergeLoop(next, Tail(segs)))

\* Faulty variant of the merger (it breaks C7): nothing is merged unless
\* both channels have segments.
MergeNeedsBothChannels(agent_segments, human_segments) ==
    IF agent_segments = <<>> \/ human_segments = <<>> THEN <<>>
    ELSE Bind(Deduplicate(agent_segments \o human_segments, {}),
              LAMBDA deduplicated :
                  Bind(SortByStart(deduplicated),
                       LAMBDA sorted : MergeLoop(<<>>, sorted)))

\* all_segments, deduplicated (first unsorted, then sorted in place), merged.
MergeTranscriptSegments(agent_segments, human_segments) ==
    Bind(Deduplicate(agent_segments \o human_segments, {}),
         LAMBDA deduplicated :
             Bind(SortByStart(deduplicated),
                  LAMBDA sorted : MergeLoop(<<>>, sorted)))

----------------------------------------------------------------------------
(* Webhook notifications (livekit_webhook, lines 569-621) *)

\* egress.get("egressId") of a notification that carries no identifier.
NoEgressId == "None"
EgressIdValues == {"EG_1", NoEgressId}
RoomNames == {"call_1"}

FileAt(url) == [isdict |-> TRUE, location |-> url]
NoLocation == [isdict |-> TRUE, location |-> <<>>]
NotADict == [isdict |-> FALSE, location |-> <<>>]

FileResultsChoices ==
    { <<>>,
      <<FileAt(S3Url)>>,
      <<FileAt(SupabaseUrl), FileAt(HttpUrl)>>,
      <<NoLocation, FileAt(S3BucketOnlyUrl)>>,
      <<FileAt(S3Url), NotADict, FileAt(HttpUrl)>> }

EgressEnded(egress_id, file_results) ==
    [isdict |-> TRUE, event |-> "egress_ended", egress_id |-> egress_id,
     room_name |-> "call_1", file_results |-> file_results]

EgressEndedBodies ==
    { EgressEnded("EG_1", f) : f \in FileResultsChoices } \cup
    { EgressEnded(NoEgressId, <<FileAt(S3Url)>>),
      [EgressEnded(NoEgressId, <<>>) EXCEPT !.room_name = "call_2"] }

Bodies ==
    EgressEndedBodies \cup
    { [isdict |-> TRUE, event |-> "room_finished", egress_id |-> NoEgressId,
       room_name |-> "call_1", file_results |-> <<>>] }

\* Faulty variants of the deduplication (they break C1, C2 and C5).
IsDuplicateNever(egress_id, processed) == FALSE
AddProcessedSkipped(processed, egress_id) == processed
AddProcessedReplaces(processed, egress_id) == {egress_id}

\* Faulty variant of the membership test (it breaks C28): a missing
\* identifier is never a duplicate.
IsDuplicateUnlessMissing(egress_id, processed) ==
    egress_id # NoEgressId /\ egress_id \in processed

\* The membership test of line 592.
IsDuplicate(egress_id, processed) == egress_id \in processed

\* processed_egresses.add(egress_id), line 596.
AddProcessed(processed, egress_id) == processed \cup {egress_id}

\* The loop of lines 605-610: one task per file result with a non-empty
\* location; file_result.get raises on an entry that is no JSON object,
\* which ends the loop (the tasks added before it stay added).
RECURSIVE ScheduledUrls(_)
ScheduledUrls(file_results) ==
    IF file_results = <<>> THEN <<>>
    ELSE IF ~Head(file_results).isdict THEN <<>>
    ELSE (IF Head(file_results).location # <<>>
          THEN <<Head(file_results).location>> ELSE <<>>)
         \o ScheduledUrls(Tail(file_results))

LoopRaises(file_results) ==
    \E i \in 1..Len(file_results) : ~file_results[i].isdict

\* Faulty variant of the empty-results test (it breaks C4).
HasNoFilesNever(file_results) == FALSE

\* "if not file_results", line 601.
HasNoFiles(file_results) == file_results = <<>>

\* Faulty variant of the handler (it breaks C27): the identifier is
\* inserted only once file results are there.
WebhookResultInsertsWithFiles(body, processed) ==
    IF ~body.isdict
    THEN [processed |-> processed, urls |-> <<>>, accepted |-> FALSE,
          status |-> 500, message |-> "error"]
    ELSE IF body.event # "egress_ended"
    THEN [processed |-> processed, urls |-> <<>>, accepted |-> FALSE,
          status |-> 200, message |-> "event_ignored"]
    ELSE IF IsDuplicate(body.egress_id, processed)
    THEN [processed |-> processed, urls |-> <<>>, accepted |-> FALSE,
          status |-> 200, message |-> "duplicate_ignored"]
    ELSE LET added == AddProcessed(processed, body.egress_id)
         IN  IF HasNoFiles(body.file_results)
             THEN [processed |-> processed, urls |-> <<>>, accepted |-> TRUE,
                   status |-> 200, message |-> "no_files"]
             ELSE IF LoopRaises(body.file_results)
             THEN [processed |-> added,
                   urls |-> ScheduledUrls(body.file_results),
                   accepted |-> TRUE, status |-> 500, message |-> "error"]
             ELSE [processed |-> added,
                   urls |-> ScheduledUrls(body.file_results),
                   accepted |-> TRUE, status |-> 200,
                   message |-> "processing_started"]

\* The handler after "await request.json()" has returned body: the new
\* ProcessedSet, the locations to schedule and the response.
WebhookResult(body, processed) ==
    IF ~body.isdict
    THEN [processed |-> processed, urls |-> <<>>, accepted |-> FALSE,
          status |-> 500, message |-> "error"]
    ELSE IF body.event # "egress_ended"
    THEN [processed |-> processed, urls |-> <<>>, accepted |-> FALSE,
          status |-> 200, message |-> "event_ignored"]
    ELSE IF IsDuplicate(body.egress_id, processed)
    THEN [processed |-> processed, urls |-> <<>>, accepted |-> FALSE,
          status |-> 200, message |-> "duplicate_ignored"]
    ELSE LET added == AddProcessed(processed, body.egress_id)
         IN  IF HasNoFiles(body.file_results)
             THEN [processed |-> added, urls |-> <<>>, accepted |-> TRUE,
                   status |-> 200, message |-> "no_files"]
             ELSE IF LoopRaises(body.file_results)
             THEN [processed |-> added,
                   urls |-> ScheduledUrls(body.file_results),
                   accepted |-> TRUE, status |-> 500, message |-> "error"]
             ELSE [processed |-> added,
                   urls |-> ScheduledUrls(body.file_results),
                   accepted |-> TRUE, status |-> 200,
                   message |-> "processing_started"]

----------------------------------------------------------------------------
(* Pipeline runs (process_recording, lines 257-329) *)

NoSession == [phone_number |-> "", first_name |-> "", last_name |-> ""]

\* A background task as background_tasks.add_task leaves it.
NewRun(rid, body, url) ==
    [rid |-> rid, egress |-> body.egress_id, file_url |-> url,
     room_name |-> body.room_name, pc |-> "scheduled",
     session_data |-> NoSession, temp |-> {}, log |-> <<>>,
     agent_segments |-> <<>>, human_segments |-> <<>>,
     agent_failed |-> FALSE, human_failed |-> FALSE,
     transcript |-> <<>>, posts |-> 0, delivery |-> "none",
     failed_at |-> "none",
     outcome |-> "pending"]

RECURSIVE NewRuns(_, _, _)
NewRuns(rid, body, urls) ==
    IF urls = <<>> THEN <<>>
    ELSE <<NewRun(rid, body, Head(urls))>> \o NewRuns(rid, body, Tail(urls))

\* Faulty variant of the stage order (it breaks C6): the merge runs
\* before the human channel is transcribed.
StageAfterMergeEarly(pc) ==
    CASE pc = "locate" -> "fetch"
      [] pc = "fetch" -> "split_agent"
      [] pc = "split_agent" -> "split_human"
      [] pc = "split_human" -> "transcribe_agent"
      [] pc = "transcribe_agent" -> "merge"
      [] pc = "merge" -> "transcribe_human"
      [] pc = "transcribe_human" -> "deliver"
      [] OTHER -> "done"

\* The order of the statements of process_recording.
StageAfter(pc) ==
    CASE pc = "locate" -> "fetch"
      [] pc = "fetch" -> "split_agent"
      [] pc = "split_agent" -> "split_human"
      [] pc = "split_human" -> "transcribe_agent"
      [] pc = "transcribe_agent" -> "transcribe_human"
      [] pc = "transcribe_human" -> "merge"
      [] pc = "merge" -> "deliver"
      [] OTHER -> "done"

\* Faulty variant of the cleanup (it breaks C9): the files stay.
ExitTempDirKeeps(temp) == temp

\* Leaving "with tempfile.TemporaryDirectory()": the directory and all it
\* holds are removed.
ExitTempDir(temp) == {}

\* The call returns: its locals are gone, only what the run did remains.
Returned(run, outcome) ==
    [NewRun(run.rid, [egress_id |-> run.egress, room_name |-> run.room_name],
            run.file_url)
        EXCEPT !.pc = "done", !.temp = ExitTempDir(run.temp),
               !.outcome = outcome, !.posts = run.posts,
               !.delivery = run.delivery,
               !.failed_at = run.failed_at, !.log = run.log]

\* An exception raised inside the with block: the directory is removed and
\* "except Exception" (line 328) logs it; the task returns normally.
FailedStage(pc) == IF pc \in {"split_agent", "split_human"} THEN "split" ELSE pc

\* Faulty variants of the exception handling (they break C8 and C10):
\* the exception is swallowed where it occurs and the run goes on; the
\* exception escapes the task.
OnExceptionSwallowed(run) ==
    [run EXCEPT !.failed_at = FailedStage(run.pc), !.pc = StageAfter(run.pc)]
OnExceptionEscapes(run) ==
    [run EXCEPT !.failed_at = FailedStage(run.pc), !.pc = "raised",
                !.outcome = "failed"]

OnException(run) ==
    Returned([run EXCEPT !.failed_at = FailedStage(run.pc)], "failed")

\* BackgroundTasks runs the tasks of one response one after the other; a
\* task that raised ("raised") would end the sequence.
EarlierTasksEnded(i) ==
    \A j \in 1..(i - 1) : runs[j].rid = runs[i].rid => runs[j].pc = "done"

SessionData(room_name) ==
    IF room_name \in DOMAIN active_sessions
    THEN active_sessions[room_name] ELSE NoSession

----------------------------------------------------------------------------
(* Initial state: the module as imported *)

\* No function is being called on its own.
NoCall == [fn |-> "none"]

\* current_egress_id["value"] is None.
NoId == "None"

\* No agent session is running.
NoAgent ==
    /\ RECORDING_ENABLED = FALSE
    /\ initial_greeting_enabled = TRUE
    /\ entry = "none"
    /\ participant = [kind |-> "none", present |-> FALSE, callStatus |-> "",
                      answered |-> FALSE]
    /\ greeting_said = FALSE
    /\ egress_started = FALSE
    /\ egress_stopped = FALSE
    /\ current_egress_id = NoId
    /\ tasks = <<>>
    /\ requests = <<>>
    /\ egresses = {}
    /\ observed = {}
    /\ nevents = 0

Init ==
    /\ ASSEMBLYAI_API_KEY \in BOOLEAN
    /\ POST_CALL_WEBHOOK_URL \in BOOLEAN
    /\ processed_egresses = {}
    /\ active_sessions = <<>>
    /\ nreq = 0
    /\ inflight = 0
    /\ responses = <<>>
    /\ runs = <<>>
    /\ loop = 0
    /\ call = NoCall
    /\ NoAgent

config == <<ASSEMBLYAI_API_KEY, POST_CALL_WEBHOOK_URL>>
service == <<processed_egresses, active_sessions, nreq, inflight, responses>>

----------------------------------------------------------------------------
(* Request handlers. A handler runs only while no task occupies the event  *)
(* loop with synchronous code (loop = 0).                                  *)

\* dial_lead, line 546: the session data of a dialled room is stored.
DialLead(room_name) ==
    /\ loop = 0
    /\ active_sessions' =
          [r \in DOMAIN active_sessions \cup {room_name} |->
              IF r = room_name
              THEN [phone_number |-> "+4712345678", first_name |-> "Caller",
                    last_name |-> ""]
              ELSE active_sessions[r]]
    /\ UNCHANGED <<config, agent, call, processed_egresses, nreq, inflight, responses,
                   runs, loop>>

\* A notification arrives: the handler starts and suspends in
\* "await request.json()" (line 581).
ReceiveWebhook ==
    /\ loop = 0
    /\ nreq < MaxRequests
    /\ nreq' = nreq + 1
    /\ inflight' = inflight + 1
    /\ UNCHANGED <<config, agent, call, processed_egresses, active_sessions, responses,
                   runs, loop>>

\* The body has arrived: lines 582-621 run without a suspension point. The
\* response is number rid in the order of answering.
LivekitWebhook(body) ==
    /\ loop = 0
    /\ inflight > 0
    /\ LET res == WebhookResult(body, processed_egresses)
           rid == Len(responses) + 1
       IN  /\ processed_egresses' = res.processed
           /\ runs' = runs \o NewRuns(rid, body, res.urls)
           /\ responses' =
                 Append(responses,
                        [body |-> body, status |-> res.status,
                         message |-> res.message, accepted |-> res.accepted,
                         scheduled |-> Len(res.urls)])
    /\ inflight' = inflight - 1
    /\ UNCHANGED <<config, agent, call, active_sessions, nreq, loop>>

----------------------------------------------------------------------------
(* The steps of one pipeline run *)

SetRun(i, run) ==
    /\ runs' = [runs EXCEPT ![i] = run]
    /\ loop' = IF run.pc \in {"done", "posting", "raised"} THEN 0 ELSE i
    /\ UNCHANGED <<config, agent, call, service>>

Advance(run, stage) ==
    [run EXCEPT !.pc = StageAfter(run.pc), !.log = Append(@, stage)]

\* The task starts: session data is looked up (line 268) and the temporary
\* directory is created (line 271).
StartRun(i) ==
    /\ loop = 0
    /\ runs[i].pc = "scheduled"
    /\ EarlierTasksEnded(i)
    /\ SetRun(i, [runs[i] EXCEPT !.pc = "locate",
                                 !.session_data = SessionData(runs[i].room_name),
                                 !.temp = {"dir"}])

\* Lines 281-293.
Locate(i) ==
    /\ loop = i
    /\ runs[i].pc = "locate"
    /\ IF ParseLocation(runs[i].file_url).ok
       THEN SetRun(i, Advance(runs[i], "locate"))
       ELSE SetRun(i, Returned(runs[i], "unknown_format"))

\* Lines 296-305: the download writes recording.ogg or raises.
Fetch(i) ==
    /\ loop = i
    /\ runs[i].pc = "fetch"
    /\ \E ok \in BOOLEAN :
          IF ok
          THEN SetRun(i, Advance([runs[i] EXCEPT !.temp = @ \cup {"recording.ogg"}],
                                 "fetch"))
          ELSE SetRun(i, OnException(runs[i]))

\* Line 103: ffmpeg for the agent channel; check=True raises on a non-zero
\* exit, which may leave a partial file behind.
SplitAgent(i) ==
    /\ loop = i
    /\ runs[i].pc = "split_agent"
    /\ \E ok \in BOOLEAN :
          IF ok
          THEN SetRun(i, [runs[i] EXCEPT !.pc = StageAfter(@),
                                         !.temp = @ \cup {"recording_agent.wav"}])
          ELSE SetRun(i, OnException(runs[i]))

\* Line 106: ffmpeg for the human channel.
SplitHuman(i) ==
    /\ loop = i
    /\ runs[i].pc = "split_human"
    /\ \E ok \in BOOLEAN :
          IF ok
          THEN SetRun(i, Advance([runs[i] EXCEPT !.temp = @ \cup {"recording_human.wav"}],
                                 "split"))
          ELSE SetRun(i, OnException(runs[i]))

AnswersNow(speaker) ==
    IF ASSEMBLYAI_API_KEY THEN ServiceAnswers(speaker) ELSE {NoAnswer}

\* Line 311.
TranscribeAgent(i) ==
    /\ loop = i
    /\ runs[i].pc = "transcribe_agent"
    /\ \E answer \in AnswersNow("ai") :
          SetRun(i, Advance([runs[i] EXCEPT
                 !.agent_segments =
                     TranscribeWithAssemblyai(ASSEMBLYAI_API_KEY, answer, "ai"),
                 !.agent_failed = answer.status \in {"raise", "error"}],
              "transcribe_agent"))

\* Line 312.
TranscribeHuman(i) ==
    /\ loop = i
    /\ runs[i].pc = "transcribe_human"
    /\ \E answer \in AnswersNow("human") :
          SetRun(i, Advance([runs[i] EXCEPT
                 !.human_segments =
                     TranscribeWithAssemblyai(ASSEMBLYAI_API_KEY, answer, "human"),
                 !.human_failed = answer.status \in {"raise", "error"}],
              "transcribe_human"))

\* Line 315.
Merge(i) ==
    /\ loop = i
    /\ runs[i].pc = "merge"
    /\ SetRun(i, Advance([runs[i] EXCEPT !.transcript =
                    MergeTranscriptSegments(runs[i].agent_segments,
                                            runs[i].human_segments)],
                 "merge"))

\* str.replace(old, new): every occurrence, left to right.
RECURSIVE Replace(_, _, _)
Replace(s, old, new) ==
    IF s = <<>> THEN <<>>
    ELSE IF StartsWith(s, old)
    THEN new \o Replace(SubSeq(s, Len(old) + 1, Len(s)), old, new)
    ELSE <<Head(s)>> \o Replace(Tail(s), old, new)

\* Lines 318-321.
RecordingPublicUrl(file_url) ==
    IF Contains(file_url, SupabaseHost)
    THEN Replace(file_url, S3Marker, PublicMarker)
    ELSE file_url

\* seg['speaker'].upper()
Upper(speaker) == IF speaker = "ai" THEN "AI" ELSE "HUMAN"

\* Lines 231-234: "SPEAKER: text" lines joined by newlines.
RECURSIVE TranscriptFormatted(_)
TranscriptFormatted(transcript_structured) ==
    IF transcript_structured = <<>> THEN <<>>
    ELSE LET seg  == Head(transcript_structured)
             line == <<Upper(seg.speaker), ": ">> \o seg.text
         IN  IF Len(transcript_structured) = 1 THEN line
             ELSE line \o <<"\n">> \o
                  TranscriptFormatted(Tail(transcript_structured))

\* Lines 236-244: the body of the request a run at "posting" has in flight.
WebhookPayload(run) ==
    [room_name |-> run.room_name,
     phone_number |-> run.session_data.phone_number,
     first_name |-> run.session_data.first_name,
     last_name |-> run.session_data.last_name,
     recording_url |-> RecordingPublicUrl(run.file_url),
     transcript |-> TranscriptFormatted(run.transcript),
     transcript_structured |-> run.transcript]

\* Faulty variant of the delivery (it breaks C13): a run with nothing
\* transcribed makes no request.
DeliverSkipsEmpty(i) ==
    /\ loop = i
    /\ runs[i].pc = "deliver"
    /\ IF POST_CALL_WEBHOOK_URL /\ runs[i].transcript # <<>>
       THEN SetRun(i, [runs[i] EXCEPT !.pc = "posting", !.posts = @ + 1,
                                      !.log = Append(@, "deliver")])
       ELSE SetRun(i, Returned([runs[i] EXCEPT !.log = Append(@, "deliver")],
                               "processed"))

\* Line 324 and send_webhook_to_n8n up to the POST: without an endpoint the
\* call returns at once and the run ends; with one the task suspends in the
\* request.
Deliver(i) ==
    /\ loop = i
    /\ runs[i].pc = "deliver"
    /\ IF POST_CALL_WEBHOOK_URL
       THEN SetRun(i, [runs[i] EXCEPT !.pc = "posting", !.posts = @ + 1,
                                      !.log = Append(@, "deliver")])
       ELSE SetRun(i, Returned([runs[i] EXCEPT !.log = Append(@, "deliver")],
                               "processed"))

\* Faulty variant of the end of the delivery (it breaks C12): a request
\* that did not succeed is made again.
PostCompletesRetries(i) ==
    /\ loop = 0
    /\ runs[i].pc = "posting"
    /\ \E result \in {"200", "500", "error"} :
          IF result = "200"
          THEN SetRun(i, Returned([runs[i] EXCEPT !.delivery = "sent"],
                                  "processed"))
          ELSE SetRun(i, [runs[i] EXCEPT !.delivery = "failed",
                                         !.pc = "deliver"])

\* Lines 248-254: whatever the answer (200, another status, a network
\* error), it is logged and the run ends.
PostCompletes(i) ==
    /\ loop = 0
    /\ runs[i].pc = "posting"
    /\ \E result \in {"200", "500", "error"} :
          SetRun(i, Returned([runs[i] EXCEPT !.delivery =
                                 IF result = "200" THEN "sent" ELSE "failed"],
                             "processed"))

RunStep(i) ==
    \/ StartRun(i)
    \/ Locate(i)
    \/ Fetch(i)
    \/ SplitAgent(i)
    \/ SplitHuman(i)
    \/ TranscribeAgent(i)
    \/ TranscribeHuman(i)
    \/ Merge(i)
    \/ Deliver(i)
    \/ PostCompletes(i)

Next ==
    \/ \E room_name \in RoomNames : DialLead(room_name)
    \/ ReceiveWebhook
    \/ \E body \in Bodies : LivekitWebhook(body)
    \/ \E i \in 1..Len(runs) : StartRun(i)
    \/ \E i \in 1..Len(runs) : Locate(i)
    \/ \E i \in 1..Len(runs) : Fetch(i)
    \/ \E i \in 1..Len(runs) : SplitAgent(i)
    \/ \E i \in 1..Len(runs) : SplitHuman(i)
    \/ \E i \in 1..Len(runs) : TranscribeAgent(i)
    \/ \E i \in 1..Len(runs) : TranscribeHuman(i)
    \/ \E i \in 1..Len(runs) : Merge(i)
    \/ \E i \in 1..Len(runs) : Deliver(i)
    \/ \E i \in 1..Len(runs) : PostCompletes(i)

Spec == Init /\ [][Next]_vars

\* What the event loop does of its own: resume a handler whose body has
\* arrived, run a task on.
ServiceStep ==
    \/ \E body \in Bodies : LivekitWebhook(body)
    \/ \E i \in 1..Len(runs) : RunStep(i)

\* The event loop keeps running what it can run.
FairSpec == Spec /\ WF_vars(ServiceStep)


----------------------------------------------------------------------------
(* The grouping and the merger called on their own, on every input of a    *)
(* bounded set. The merger is followed statement by statement: the         *)
(* deduplication, the sort in place, the second pass, and then a second    *)
(* call on what the first one returned.                                    *)

SeqsUpTo(S, n) == UNION {[1..m -> S] : m \in 0..n}

\* Words as the transcription service reports them (milliseconds).
WordValues ==
    { [start |-> 0, end |-> 400, text |-> "a"],
      [start |-> 0, end |-> 1200, text |-> "a"],
      [start |-> 500, end |-> 900, text |-> "b"],
      [start |-> 1400, end |-> 1500, text |-> "b"],
      [start |-> 2200, end |-> 2500, text |-> "c"] }

Chronological(words) ==
    \A k \in 1..(Len(words) - 1) : words[k].end <= words[k + 1].start

WordInputs ==
    {words \in SeqsUpTo(WordValues, MaxWords) : Chronological(words)}

\* Segments a channel list can hold.
SegmentValues(speaker) ==
    { [speaker |-> speaker, t_start |-> 0, t_end |-> 400, text |-> <<"a">>],
      [speaker |-> speaker, t_start |-> 4, t_end |-> 396, text |-> <<" ", "a">>],
      [speaker |-> speaker, t_start |-> 1400, t_end |-> 2000, text |-> <<"b">>],
      [speaker |-> speaker, t_start |-> 4, t_end |-> 2000, text |-> <<"b">>],
      [speaker |-> speaker, t_start |-> 4, t_end |-> 2000,
       text |-> <<"a", " ", "b">>] }

ChannelInputs(speaker) == SeqsUpTo(SegmentValues(speaker), MaxSegments)

GroupCall(words) ==
    [fn |-> "group", stage |-> "called", words |-> words, segments |-> <<>>,
     agent_segments |-> <<>>, human_segments |-> <<>>,
     deduplicated |-> <<>>, merged |-> <<>>, again |-> <<>>]

MergeCall(agent_segments, human_segments) ==
    [fn |-> "merge", stage |-> "called", words |-> <<>>, segments |-> <<>>,
     agent_segments |-> agent_segments, human_segments |-> human_segments,
     deduplicated |-> <<>>, merged |-> <<>>, again |-> <<>>]

FunctionCalls ==
    { GroupCall(words) : words \in WordInputs } \cup
    { MergeCall(a, h) : a \in ChannelInputs("ai"), h \in ChannelInputs("human") }

FunctionInit ==
    /\ ASSEMBLYAI_API_KEY = TRUE
    /\ POST_CALL_WEBHOOK_URL = TRUE
    /\ processed_egresses = {}
    /\ active_sessions = <<>>
    /\ nreq = 0
    /\ inflight = 0
    /\ responses = <<>>
    /\ runs = <<>>
    /\ loop = 0
    /\ call \in FunctionCalls
    /\ NoAgent

\* Lines 140-172 on the words of a completed transcript.
GroupWordsCall ==
    /\ call.fn = "group" /\ call.stage = "called"
    /\ call' = [call EXCEPT !.stage = "returned",
                            !.segments = GroupWords(call.words, "ai")]
    /\ UNCHANGED <<config, agent, service, runs, loop>>

\* Lines 189-199.
DeduplicateStep ==
    /\ call.fn = "merge" /\ call.stage = "called"
    /\ call' = [call EXCEPT
                   !.stage = "deduplicated",
                   !.deduplicated =
                       Deduplicate(call.agent_segments \o call.human_segments,
                                   {})]
    /\ UNCHANGED <<config, agent, service, runs, loop>>

\* Line 202: deduplicated.sort(...), in place.
SortStep ==
    /\ call.fn = "merge" /\ call.stage = "deduplicated"
    /\ call' = [call EXCEPT !.stage = "sorted",
                            !.deduplicated = SortByStart(@)]
    /\ UNCHANGED <<config, agent, service, runs, loop>>

\* Lines 205-221.
MergePass ==
    /\ call.fn = "merge" /\ call.stage = "sorted"
    /\ call' = [call EXCEPT !.stage = "returned",
                            !.merged = MergeLoop(<<>>, call.deduplicated)]
    /\ UNCHANGED <<config, agent, service, runs, loop>>

\* The merger called again on what it returned, each segment in the list
\* of its speaker.
MergeAgain ==
    /\ call.fn = "merge" /\ call.stage = "returned"
    /\ call' = [call EXCEPT
                   !.stage = "rerun",
                   !.again = MergeTranscriptSegments(
                       SelectSeq(call.merged, LAMBDA seg : seg.speaker = "ai"),
                       SelectSeq(call.merged, LAMBDA seg : seg.speaker = "human"))]
    /\ UNCHANGED <<config, agent, service, runs, loop>>

FunctionNext ==
    \/ GroupWordsCall
    \/ DeduplicateStep
    \/ SortStep
    \/ MergePass
    \/ MergeAgain

FunctionSpec == FunctionInit /\ [][FunctionNext]_vars

----------------------------------------------------------------------------
----------------------------------------------------------------------------
(* The agent session (src/src/agent.py, entrypoint). The room is one the   *)
(* control service has created for one call: its remote participant is the *)
(* callee dialled by dial_lead (SIP) or the tester of test_call (browser). *)
(* Handlers are synchronous callbacks; greet_participant and               *)
(* stop_egress_and_cleanup run as tasks and are cut at their awaits.       *)

MaxEvents == 4

Kinds == {"sip", "browser"}

\* sip.callStatus of a SIP participant when it joins, and how it moves on.
JoinStatuses(kind) == IF kind = "sip" THEN {"dialing", "active"} ELSE {""}
HasNextCallStatus(call_status) == call_status \in {"dialing", "ringing", "active"}
NextCallStatus(call_status) ==
    CASE call_status = "dialing" -> "ringing"
      [] call_status = "ringing" -> "active"
      [] call_status = "active"  -> "hangup"

EgressId == "EG_1"

Request(api, egress_id) == [api |-> api, egress_id |-> egress_id]
StartEgress == Request("StartEgress", NoId)
GenerateReply == Request("GenerateReply", NoId)
StopEgress(egress_id) == Request("StopEgress", egress_id)
DeleteRoom == Request("DeleteRoom", NoId)

NewTask(fn) == [fn |-> fn, pc |-> "scheduled", stop |-> "none"]

\* asyncio.create_task(...) when the handler's condition holds.
CreateTask(condition, fn) ==
    IF condition THEN Append(tasks, NewTask(fn)) ELSE tasks

\* A value of sip.callStatus read by a handler or by the scan.
Observation(by, call_status) == [by |-> by, callStatus |-> call_status]

AgentInit ==
    /\ ASSEMBLYAI_API_KEY = TRUE
    /\ POST_CALL_WEBHOOK_URL = TRUE
    /\ processed_egresses = {}
    /\ active_sessions = <<>>
    /\ nreq = 0
    /\ inflight = 0
    /\ responses = <<>>
    /\ runs = <<>>
    /\ loop = 0
    /\ call = NoCall
    /\ RECORDING_ENABLED \in BOOLEAN
    /\ initial_greeting_enabled \in BOOLEAN
    /\ entry = "connected"
    /\ participant \in
          { [kind |-> kind, present |-> FALSE, callStatus |-> "",
             answered |-> FALSE] : kind \in Kinds }
    /\ greeting_said = FALSE
    /\ egress_started = FALSE
    /\ egress_stopped = FALSE
    /\ current_egress_id = NoId
    /\ tasks = <<>>
    /\ requests = <<>>
    /\ egresses = {}
    /\ observed = {}
    /\ nevents = 0

control == <<config, service, runs, loop, call>>
settings == <<RECORDING_ENABLED, initial_greeting_enabled>>
flags == <<greeting_said, egress_started, egress_stopped, current_egress_id>>

\* Lines 254-262: TRUE iff the handler creates a greeting task.
OnParticipantAttributesChanged(kind, call_status) ==
    /\ kind = "sip"
    /\ call_status = "active" /\ ~greeting_said /\ initial_greeting_enabled

\* Faulty variant of the handler (it breaks C22): a SIP participant is
\* greeted whatever its call status.
OnParticipantConnectedAnyStatus(kind, call_status) ==
    ~greeting_said /\ initial_greeting_enabled

\* Lines 265-283: TRUE iff the handler creates a greeting task.
OnParticipantConnected(kind, call_status) ==
    IF kind = "sip"
    THEN call_status = "active" /\ ~greeting_said /\ initial_greeting_enabled
    ELSE ~greeting_said /\ initial_greeting_enabled

\* Lines 329-342: TRUE iff the scan looks at the participants at all, and
\* TRUE iff it creates a greeting task for participant p.
ScanRuns == initial_greeting_enabled /\ ~greeting_said
ScanGreets(p) ==
    /\ ScanRuns
    /\ p.present
    /\ IF p.kind = "sip" THEN p.callStatus = "active" ELSE TRUE

\* Lines 292-294: the handlers are registered; entrypoint then awaits
\* session.start and update_instructions (lines 315, 323).
RegisterHandlers ==
    /\ entry = "connected"
    /\ entry' = "registered"
    /\ UNCHANGED <<control, settings, participant, flags, tasks, requests,
                   egresses, observed, nevents>>

\* Lines 329-342, without a suspension point.
ScanExistingParticipants ==
    /\ entry = "registered"
    /\ entry' = "scanned"
    /\ tasks' = CreateTask(ScanGreets(participant), "greet")
    /\ observed' =
          IF ScanRuns /\ participant.present /\ participant.kind = "sip"
          THEN observed \cup {Observation("scan", participant.callStatus)}
          ELSE observed
    /\ UNCHANGED <<control, settings, participant, flags, requests, egresses,
                   nevents>>

\* The participant joins the room; on_participant_connected runs if it is
\* registered.
ParticipantConnected(call_status) ==
    /\ entry # "none"
    /\ nevents < MaxEvents
    /\ ~participant.present
    /\ call_status \in JoinStatuses(participant.kind)
    /\ nevents' = nevents + 1
    /\ participant' =
          [participant EXCEPT
              !.present = TRUE,
              !.callStatus = call_status,
              !.answered = @ \/ participant.kind = "browser"
                             \/ call_status = "active"]
    /\ IF entry = "connected"
       THEN UNCHANGED <<tasks, observed>>
       ELSE /\ tasks' = CreateTask(
                   OnParticipantConnected(participant.kind, call_status),
                   "greet")
            /\ observed' =
                  IF participant.kind = "sip"
                  THEN observed \cup {Observation("connected", call_status)}
                  ELSE observed
    /\ UNCHANGED <<control, settings, entry, flags, requests, egresses>>

\* sip.callStatus of the participant changes;
\* on_participant_attributes_changed runs if it is registered.
AttributesChanged ==
    /\ entry # "none"
    /\ nevents < MaxEvents
    /\ participant.present /\ participant.kind = "sip"
    /\ HasNextCallStatus(participant.callStatus)
    /\ nevents' = nevents + 1
    /\ LET call_status == NextCallStatus(participant.callStatus)
       IN  /\ participant' =
                  [participant EXCEPT
                      !.callStatus = call_status,
                      !.answered = @ \/ call_status = "active"]
           /\ IF entry = "connected"
              THEN UNCHANGED <<tasks, observed>>
              ELSE /\ tasks' = CreateTask(
                          OnParticipantAttributesChanged(participant.kind,
                                                         call_status),
                          "greet")
                   /\ observed' =
                         observed \cup {Observation("changed", call_status)}
    /\ UNCHANGED <<control, settings, entry, flags, requests, egresses>>

\* The participant leaves the room; on_participant_disconnected (lines
\* 286-289) runs if it is registered.
ParticipantDisconnected ==
    /\ entry # "none"
    /\ nevents < MaxEvents
    /\ participant.present
    /\ nevents' = nevents + 1
    /\ participant' = [participant EXCEPT !.present = FALSE]
    /\ tasks' = CreateTask(entry # "connected", "cleanup")
    /\ UNCHANGED <<control, settings, entry, flags, requests, egresses,
                   observed>>

\* The event loop starts tasks in the order of their creation.
TaskStarts(i) ==
    /\ tasks[i].pc = "scheduled"
    /\ \A j \in 1..(i - 1) : tasks[j].pc # "scheduled"

SetTask(i, pc) == tasks' = [tasks EXCEPT ![i].pc = pc]

\* Faulty variant of the task (it breaks C25): greeting_said is not tested.
GreetParticipantUnguarded(i) ==
    /\ tasks[i].fn = "greet"
    /\ TaskStarts(i)
    /\ greeting_said' = TRUE
    /\ IF ~egress_started
       THEN /\ egress_started' = TRUE
            /\ IF RECORDING_ENABLED
               THEN /\ requests' = Append(requests, StartEgress)
                    /\ SetTask(i, "start_egress")
               ELSE /\ requests' = Append(requests, GenerateReply)
                    /\ SetTask(i, "generate_reply")
       ELSE /\ requests' = Append(requests, GenerateReply)
            /\ SetTask(i, "generate_reply")
            /\ UNCHANGED egress_started
    /\ UNCHANGED <<control, settings, entry, participant, egress_stopped,
                   current_egress_id, egresses, observed, nevents>>

\* greet_participant, lines 204-211 (and 93-143 of
\* start_dual_channel_recording, or 216-217 when no recording is started),
\* up to the first await that suspends.
GreetParticipant(i) ==
    /\ tasks[i].fn = "greet"
    /\ TaskStarts(i)
    /\ IF greeting_said
       THEN /\ SetTask(i, "done")
            /\ UNCHANGED <<greeting_said, egress_started, requests>>
       ELSE /\ greeting_said' = TRUE
            /\ IF ~egress_started
               THEN /\ egress_started' = TRUE
                    /\ IF RECORDING_ENABLED
                       THEN /\ requests' = Append(requests, StartEgress)
                            /\ SetTask(i, "start_egress")
                       ELSE /\ requests' = Append(requests, GenerateReply)
                            /\ SetTask(i, "generate_reply")
               ELSE /\ requests' = Append(requests, GenerateReply)
                    /\ SetTask(i, "generate_reply")
                    /\ UNCHANGED egress_started
    /\ UNCHANGED <<control, settings, entry, participant, egress_stopped,
                   current_egress_id, egresses, observed, nevents>>

\* Lines 143-151 and 212-217: the platform answers with the egress, or the
\* request raises and start_dual_channel_recording returns None; the
\* greeting is asked for next.
StartEgressReturns(i, ok) ==
    /\ tasks[i].fn = "greet"
    /\ tasks[i].pc = "start_egress"
    /\ egresses' = IF ok THEN egresses \cup {EgressId} ELSE egresses
    /\ current_egress_id' = IF ok THEN EgressId ELSE current_egress_id
    /\ requests' = Append(requests, GenerateReply)
    /\ SetTask(i, "generate_reply")
    /\ UNCHANGED <<control, settings, entry, participant, greeting_said,
                   egress_started, egress_stopped, observed, nevents>>

\* Lines 217-218.
GenerateReplyReturns(i) ==
    /\ tasks[i].fn = "greet"
    /\ tasks[i].pc = "generate_reply"
    /\ SetTask(i, "done")
    /\ UNCHANGED <<control, settings, entry, participant, flags, requests,
                   egresses, observed, nevents>>

\* Faulty variant of the task (it breaks C26): egress_stopped is not
\* tested.
StopEgressAndCleanupUnguarded(i) ==
    /\ tasks[i].fn = "cleanup"
    /\ TaskStarts(i)
    /\ egress_stopped' = TRUE
    /\ IF current_egress_id # NoId
       THEN /\ requests' = Append(requests, StopEgress(current_egress_id))
            /\ SetTask(i, "stop_egress")
       ELSE /\ tasks' = [tasks EXCEPT ![i].pc = "sleep",
                                      ![i].stop = "skipped"]
            /\ UNCHANGED requests
    /\ UNCHANGED <<control, settings, entry, participant, greeting_said,
                   egress_started, current_egress_id, egresses, observed,
                   nevents>>

\* stop_egress_and_cleanup, lines 222-238 or 222-244, up to the first
\* await.
StopEgressAndCleanup(i) ==
    /\ tasks[i].fn = "cleanup"
    /\ TaskStarts(i)
    /\ IF egress_stopped
       THEN /\ SetTask(i, "done")
            /\ UNCHANGED <<egress_stopped, requests>>
       ELSE /\ egress_stopped' = TRUE
            /\ IF current_egress_id # NoId
               THEN /\ requests' =
                          Append(requests, StopEgress(current_egress_id))
                    /\ SetTask(i, "stop_egress")
               ELSE /\ tasks' = [tasks EXCEPT ![i].pc = "sleep",
                                              ![i].stop = "skipped"]
                    /\ UNCHANGED requests
    /\ UNCHANGED <<control, settings, entry, participant, greeting_said,
                   egress_started, current_egress_id, egresses, observed,
                   nevents>>

\* Lines 238-244: the request returns or raises (logged, line 241).
StopEgressReturns(i, ok) ==
    /\ tasks[i].fn = "cleanup"
    /\ tasks[i].pc = "stop_egress"
    /\ tasks' = [tasks EXCEPT ![i].pc = "sleep",
                              ![i].stop = IF ok THEN "ok" ELSE "raised"]
    /\ UNCHANGED <<control, settings, entry, participant, flags, requests,
                   egresses, observed, nevents>>

\* Lines 244-248: the delay is over, the room deletion is requested.
SleepReturns(i) ==
    /\ tasks[i].fn = "cleanup"
    /\ tasks[i].pc = "sleep"
    /\ requests' = Append(requests, DeleteRoom)
    /\ SetTask(i, "delete_room")
    /\ UNCHANGED <<control, settings, entry, participant, flags, egresses,
                   observed, nevents>>

\* Lines 248-251: the request returns or raises (logged).
DeleteRoomReturns(i) ==
    /\ tasks[i].fn = "cleanup"
    /\ tasks[i].pc = "delete_room"
    /\ SetTask(i, "done")
    /\ UNCHANGED <<control, settings, entry, participant, flags, requests,
                   egresses, observed, nevents>>

TaskStep(i) ==
    \/ GreetParticipant(i)
    \/ \E ok \in BOOLEAN : StartEgressReturns(i, ok)
    \/ GenerateReplyReturns(i)
    \/ StopEgressAndCleanup(i)
    \/ \E ok \in BOOLEAN : StopEgressReturns(i, ok)
    \/ SleepReturns(i)
    \/ DeleteRoomReturns(i)

AgentNext ==
    \/ RegisterHandlers
    \/ ScanExistingParticipants
    \/ \E call_status \in {"", "dialing", "active"} :
          ParticipantConnected(call_status)
    \/ AttributesChanged
    \/ ParticipantDisconnected
    \/ \E i \in 1..Len(tasks) : GreetParticipant(i)
    \/ \E i \in 1..Len(tasks), ok \in BOOLEAN : StartEgressReturns(i, ok)
    \/ \E i \in 1..Len(tasks) : GenerateReplyReturns(i)
    \/ \E i \in 1..Len(tasks) : StopEgressAndCleanup(i)
    \/ \E i \in 1..Len(tasks), ok \in BOOLEAN : StopEgressReturns(i, ok)
    \/ \E i \in 1..Len(tasks) : SleepReturns(i)
    \/ \E i \in 1..Len(tasks) : DeleteRoomReturns(i)

AgentSpec == AgentInit /\ [][AgentNext]_vars

\* What the agent does of its own: entrypoint goes on, and the event loop
\* runs the tasks and resumes them when their requests return.
AgentStep ==
    \/ RegisterHandlers
    \/ ScanExistingParticipants
    \/ \E i \in 1..Len(tasks) : TaskStep(i)

FairAgentSpec == AgentSpec /\ WF_vars(AgentStep)

----------------------------------------------------------------------------
(* What the claims speak about *)

\* The responses, by position, given to egress_ended notifications for e.
DeliveriesOf(e) ==
    {k \in 1..Len(responses) :
        /\ responses[k].body.isdict
        /\ responses[k].body.event = "egress_ended"
        /\ responses[k].body.egress_id = e}

\* The pipeline runs scheduled for e.
RunsOf(e) == {i \in 1..Len(runs) : runs[i].egress = e}

\* The pipeline runs scheduled by response k.
RunsBy(k) == {i \in 1..Len(runs) : runs[i].rid = k}

FirstDelivery(e) == Min(DeliveriesOf(e))

\* The same notification for e was delivered at least twice, and nothing
\* else was delivered for e.
SameDeliveredAgain(e) ==
    /\ Cardinality(DeliveriesOf(e)) >= 2
    /\ \A j, k \in DeliveriesOf(e) : responses[j].body = responses[k].body

----------------------------------------------------------------------------
(* C1 *)

\* C1 as stated: delivering the same egress_ended notification for E two
\* or more times results in exactly one pipeline run scheduled for E.
C1_ExactlyOneRun ==
    \A e \in EgressIdValues :
        SameDeliveredAgain(e) => Cardinality(RunsOf(e)) = 1

\* C1 amended: of all egress_ended notifications delivered for E only the
\* first one answered schedules pipeline runs, one per file result with a
\* non-empty location that the loop reaches; every later delivery is
\* answered duplicate_ignored and schedules none, so the total for E stays
\* what the first delivery scheduled.
C1_OnlyFirstDeliverySchedules ==
    \A e \in EgressIdValues :
        DeliveriesOf(e) # {} =>
            LET first == FirstDelivery(e)
            IN  /\ Cardinality(RunsOf(e)) =
                       Len(ScheduledUrls(responses[first].body.file_results))
                /\ RunsOf(e) = RunsBy(first)
                /\ \A k \in DeliveriesOf(e) \ {first} :
                       /\ responses[k].message = "duplicate_ignored"
                       /\ responses[k].status = 200
                       /\ RunsBy(k) = {}

\* The same one-file notification was delivered twice and one run exists.
C1_Witness ==
    /\ SameDeliveredAgain("EG_1")
    /\ responses[FirstDelivery("EG_1")].body.file_results = <<FileAt(S3Url)>>
    /\ Cardinality(RunsOf("EG_1")) = 1

----------------------------------------------------------------------------
(* C2 *)

\* C2: every identifier with a scheduled or started pipeline run is in
\* ProcessedSet, and of the handlers for one identifier at most one passes
\* the membership test, however the handlers interleave.
C2_InsertedBeforeScheduling ==
    /\ \A i \in 1..Len(runs) : runs[i].egress \in processed_egresses
    /\ \A e \in EgressIdValues :
          Cardinality({k \in DeliveriesOf(e) : responses[k].accepted}) <= 1
    /\ \A k \in 1..Len(responses) :
          responses[k].accepted =>
              responses[k].body.egress_id \in processed_egresses

\* Two handlers for EG_1 were answered, one of them a duplicate, before the
\* run the first one scheduled had started.
C2_Witness ==
    /\ Cardinality(DeliveriesOf("EG_1")) = 2
    /\ \E k \in DeliveriesOf("EG_1") : responses[k].message = "duplicate_ignored"
    /\ \E i \in RunsOf("EG_1") : runs[i].pc = "scheduled"

----------------------------------------------------------------------------
(* C3 *)

\* C3: every accepted egress_ended notification (its identifier inserted
\* into ProcessedSet) is answered with success, whatever its payload.
C3_AcceptedAnsweredSuccess ==
    \A k \in 1..Len(responses) :
        responses[k].accepted => responses[k].status = 200

----------------------------------------------------------------------------
(* C4 *)

ZeroFileDeliveries ==
    {k \in 1..Len(responses) :
        /\ responses[k].body.isdict
        /\ responses[k].body.event = "egress_ended"
        /\ responses[k].body.file_results = <<>>}

\* C4 as stated: an egress_ended notification with zero file results is
\* answered with success and no_files, and schedules no run.
C4_ZeroFilesAnsweredNoFiles ==
    \A k \in ZeroFileDeliveries :
        /\ responses[k].status = 200
        /\ responses[k].message = "no_files"
        /\ RunsBy(k) = {}

\* C4 amended: an egress_ended notification with zero file results is
\* answered with success and schedules no run; the indication is no_files
\* when its identifier had not been accepted before and duplicate_ignored
\* when it had.
C4_ZeroFilesSuccessNoRun ==
    \A k \in ZeroFileDeliveries :
        /\ responses[k].status = 200
        /\ RunsBy(k) = {}
        /\ responses[k].message =
              IF \E j \in 1..(k - 1) :
                    /\ responses[j].accepted
                    /\ responses[j].body.egress_id = responses[k].body.egress_id
              THEN "duplicate_ignored" ELSE "no_files"

\* A zero-file notification was answered no_files.
C4_Witness ==
    \E k \in ZeroFileDeliveries :
        responses[k].message = "no_files" /\ responses[k].accepted

----------------------------------------------------------------------------
(* C5 *)

\* C5: ProcessedSet only grows, and it changes only in the step in which a
\* handler accepts an egress_ended notification, by that notification's
\* identifier.
C5_ProcessedSetOnlyGrows ==
    [][/\ processed_egresses \subseteq processed_egresses'
       /\ processed_egresses' # processed_egresses =>
             /\ Len(responses') = Len(responses) + 1
             /\ Last(responses').accepted
             /\ Last(responses').body.event = "egress_ended"
             /\ processed_egresses' =
                   processed_egresses \cup {Last(responses').body.egress_id}
             /\ runs' = runs \o SubSeq(runs', Len(runs) + 1, Len(runs'))
             /\ \A i \in 1..Len(runs) : runs'[i] = runs[i]]_vars

\* Both identifiers are in the set after a pipeline run has failed.
C5_Witness ==
    /\ processed_egresses = EgressIdValues
    /\ \E i \in 1..Len(runs) : runs[i].outcome = "failed"

----------------------------------------------------------------------------
(* C6 *)

StageOrder ==
    <<"locate", "fetch", "split", "transcribe_agent", "transcribe_human",
      "merge", "deliver">>

IsPrefix(s, t) == Len(s) <= Len(t) /\ SubSeq(t, 1, Len(s)) = s

\* The number of stages that are complete when a run is at pc.
StagesBefore(pc) ==
    CASE pc \in {"scheduled", "locate"} -> 0
      [] pc = "fetch" -> 1
      [] pc \in {"split_agent", "split_human"} -> 2
      [] pc = "transcribe_agent" -> 3
      [] pc = "transcribe_human" -> 4
      [] pc = "merge" -> 5
      [] pc = "deliver" -> 6
      [] OTHER -> 7

\* C6: the stages of a run complete in the order locate, fetch, split,
\* transcribe agent, transcribe human, merge, deliver, and a stage is in
\* progress only when all stages before it are complete.
C6_StagesInOrder ==
    \A i \in 1..Len(runs) :
        /\ IsPrefix(runs[i].log, StageOrder)
        /\ runs[i].pc \notin {"done", "raised"} =>
              Len(runs[i].log) = StagesBefore(runs[i].pc)

\* A run went through all seven stages.
C6_Witness ==
    \E i \in 1..Len(runs) : runs[i].log = StageOrder /\ runs[i].posts = 1

----------------------------------------------------------------------------
(* C7 *)

AnyChannelFailed(run) == run.agent_failed \/ run.human_failed

\* After the merge, what a run with one failed channel holds: nothing for
\* the failed channel, the other channel's segments as grouped from its
\* words, and a transcript that is exactly those (at "posting" the
\* transcript is the payload of the request in flight).
C7_State ==
    \A i \in 1..Len(runs) :
        LET r == runs[i]
        IN  /\ AnyChannelFailed(r) =>
                  /\ r.failed_at = "none"
                  /\ r.pc \in {"transcribe_human", "merge", "deliver", "posting"}
            /\ r.pc \in {"deliver", "posting"} /\ r.agent_failed /\ ~r.human_failed =>
                  /\ r.agent_segments = <<>>
                  /\ r.human_segments = GroupWords(WordsB, "human")
                  /\ r.transcript = r.human_segments
            /\ r.pc \in {"deliver", "posting"} /\ r.human_failed /\ ~r.agent_failed =>
                  /\ r.human_segments = <<>>
                  /\ r.agent_segments = GroupWords(WordsA, "ai")
                  /\ r.transcript = r.agent_segments
            /\ r.pc = "posting" => r.posts = 1

\* The steps of a run with a failed channel: the next stages are taken as
\* in any other run and the run ends as processed, never as failed.
C7_Step ==
    \A i \in 1..Len(runs) :
        AnyChannelFailed(runs[i]) /\ runs'[i] # runs[i] =>
            /\ runs'[i].outcome # "failed"
            /\ runs[i].pc = "transcribe_human" =>
                  /\ runs'[i].pc = "merge"
                  /\ Last(runs'[i].log) = "transcribe_human"
            /\ runs[i].pc = "merge" =>
                  /\ runs'[i].pc = "deliver"
                  /\ Last(runs'[i].log) = "merge"
            /\ runs[i].pc = "deliver" =>
                  /\ Last(runs'[i].log) = "deliver"
                  /\ IF POST_CALL_WEBHOOK_URL
                     THEN runs'[i].pc = "posting" /\ runs'[i].posts = 1
                          /\ runs'[i].transcript = runs[i].transcript
                     ELSE runs'[i].outcome = "processed"
            /\ runs[i].pc = "posting" => runs'[i].outcome = "processed"

\* C7: a transcription failure on one channel gives an empty segment list
\* for that channel only; the other channel is transcribed, the merge and
\* the delivery stage follow, and the transcript handed to the delivery is
\* exactly the other channel's segments.
C7_ChannelFailureIsolated == []C7_State /\ [][C7_Step]_vars

\* The agent channel failed and the human channel's segments are being
\* delivered.
C7_Witness ==
    \E i \in 1..Len(runs) :
        /\ runs[i].pc = "posting"
        /\ runs[i].agent_failed /\ ~runs[i].human_failed
        /\ Len(runs[i].transcript) = 2

----------------------------------------------------------------------------
(* C8 *)

\* C8: a run that failed in the fetch or in the split has ended without a
\* transcription, a merge or a delivery.
C8_FetchOrSplitFailureAborts ==
    \A i \in 1..Len(runs) :
        runs[i].failed_at \in {"fetch", "split"} =>
            /\ runs[i].pc = "done"
            /\ runs[i].outcome = "failed"
            /\ runs[i].posts = 0
            /\ runs[i].delivery = "none"
            /\ runs[i].transcript = <<>>
            /\ \A k \in 1..Len(runs[i].log) :
                  runs[i].log[k] \in {"locate", "fetch"}

\* One run failed in the fetch and another in the split.
C8_Witness ==
    /\ \E i \in 1..Len(runs) : runs[i].failed_at = "fetch"
    /\ \E i \in 1..Len(runs) : runs[i].failed_at = "split"

----------------------------------------------------------------------------
(* C9 *)

\* C9: a run that has ended, on whatever path, has no temporary file left;
\* a run holds temporary files only between its start and its end.
C9_TempFilesRemoved ==
    \A i \in 1..Len(runs) :
        runs[i].pc \in {"done", "scheduled"} => runs[i].temp = {}

\* Runs have ended by an unknown location, by a split failure and by a
\* failed delivery.
C9_Witness ==
    /\ \E i \in 1..Len(runs) :
          runs[i].pc = "done" /\ runs[i].outcome = "unknown_format"
    /\ \E i \in 1..Len(runs) :
          runs[i].pc = "done" /\ runs[i].failed_at = "split"
    /\ \E i \in 1..Len(runs) :
          runs[i].pc = "done" /\ runs[i].delivery = "failed"

----------------------------------------------------------------------------
(* C10 *)

\* The step in which run i fails.
Fails(i) == runs[i].outcome = "pending" /\ runs'[i].outcome = "failed"

C10_Step ==
    \A i \in 1..Len(runs) :
        Fails(i) =>
            /\ processed_egresses' = processed_egresses
            /\ active_sessions' = active_sessions
            /\ inflight' = inflight
            /\ responses' = responses
            /\ Len(runs') = Len(runs)
            /\ \A j \in 1..Len(runs) : j # i => runs'[j] = runs[j]
            /\ loop' = 0

\* No handler waits and every scheduled run has ended.
AllSettled ==
    /\ inflight = 0
    /\ \A i \in 1..Len(runs) : runs[i].pc = "done"

\* C10: the step in which a run fails changes neither ProcessedSet nor the
\* call-metadata table nor any other run and frees the event loop; and
\* whatever fails, again and again every waiting handler has been answered
\* and every scheduled run has reached its end.
C10_FailureCaughtAtBoundary ==
    /\ [][C10_Step]_vars
    /\ []<>AllSettled

\* The first task of a response has failed, the second has ended, the
\* call-metadata table is not empty, and a later notification for another
\* identifier has been accepted.
C10_Witness ==
    /\ \E i, j \in 1..Len(runs) :
          /\ i < j /\ runs[i].rid = runs[j].rid
          /\ runs[i].outcome = "failed" /\ runs[j].pc = "done"
    /\ DOMAIN active_sessions # {}
    /\ processed_egresses = EgressIdValues
    /\ \E k \in 1..Len(responses) :
          responses[k].accepted /\ responses[k].body.egress_id = NoEgressId
                                /\ k > 1

----------------------------------------------------------------------------
(* C11 *)

\* The stages the claim calls suspension points.
FetchSplitTranscribe ==
    {"fetch", "split_agent", "split_human", "transcribe_agent",
     "transcribe_human"}

\* C11: while a run is in its fetch, split or transcription stage, a
\* handler whose body has arrived can run, and a scheduled run of another
\* response can start: the stages of different runs interleave.
C11_StagesAreSuspensionPoints ==
    \A i \in 1..Len(runs) :
        runs[i].pc \in FetchSplitTranscribe =>
            /\ inflight > 0 => ENABLED (\E body \in Bodies : LivekitWebhook(body))
            /\ \A j \in 1..Len(runs) :
                  (/\ j # i
                   /\ runs[j].pc = "scheduled"
                   /\ EarlierTasksEnded(j)) => ENABLED StartRun(j)

----------------------------------------------------------------------------
(* C12 *)

\* C12: a recording is a file result of an egress. The runs for an egress
\* identifier are those its first answered notification scheduled, one per
\* file result the loop scheduled, whatever was delivered afterwards; a run
\* makes at most one delivery request, and a run whose request failed has
\* ended after that one request.
C12_AtMostOneDeliveryAttempt ==
    /\ \A e \in EgressIdValues :
          DeliveriesOf(e) # {} =>
              LET first == FirstDelivery(e)
                  urls  == ScheduledUrls(responses[first].body.file_results)
                  mine  == SelectSeq(runs, LAMBDA r : r.egress = e)
              IN  /\ Len(mine) = Len(urls)
                  /\ \A n \in 1..Len(mine) :
                         mine[n].file_url = urls[n] /\ mine[n].rid = first
    /\ \A i \in 1..Len(runs) :
          /\ runs[i].posts <= 1
          /\ runs[i].pc = "posting" =>
                 runs[i].posts = 1 /\ runs[i].delivery = "none"
          /\ runs[i].delivery # "none" =>
                 runs[i].posts = 1 /\ runs[i].pc = "done"
          /\ runs[i].posts = 0 => runs[i].delivery = "none"

\* A delivery has failed, its run has ended, and the notification was then
\* delivered again and discarded.
C12_Witness ==
    /\ \E i \in RunsOf("EG_1") :
          /\ runs[i].delivery = "failed"
          /\ runs[i].pc = "done" /\ runs[i].posts = 1
    /\ Len(responses) = 2
    /\ responses[2].body.egress_id = "EG_1"
    /\ responses[2].message = "duplicate_ignored"
    /\ inflight = 0

----------------------------------------------------------------------------
(* C13 *)

\* C13: without the transcription credential both channel segment lists and
\* the merged transcript of every run are empty, no channel counts as
\* failed, and a run that reaches the delivery stage performs it as any
\* other run: with an endpoint configured the one request is made, its
\* transcript text and its structured segment list both empty.
C13_MissingCredentialStillDelivers ==
    ~ASSEMBLYAI_API_KEY =>
        \A i \in 1..Len(runs) :
            LET r == runs[i]
            IN  /\ r.agent_segments = <<>> /\ r.human_segments = <<>>
                /\ r.transcript = <<>>
                /\ ~AnyChannelFailed(r)
                /\ r.pc = "deliver" => r.log = SubSeq(StageOrder, 1, 6)
                /\ r.pc = "posting" =>
                       /\ WebhookPayload(r).transcript = <<>>
                       /\ WebhookPayload(r).transcript_structured = <<>>
                /\ (r.log = StageOrder /\ POST_CALL_WEBHOOK_URL) => r.posts = 1
                /\ r.log = StageOrder =>
                       r.pc = "posting" \/ r.outcome = "processed"

\* Without the credential a request with an empty transcript is in flight.
C13_Witness ==
    /\ ~ASSEMBLYAI_API_KEY
    /\ \E i \in 1..Len(runs) :
          /\ runs[i].pc = "posting"
          /\ runs[i].posts = 1
          /\ WebhookPayload(runs[i]).transcript = <<>>

----------------------------------------------------------------------------
(* C14 *)

\* C14: a run whose location matches neither accepted format never gets to
\* the fetch, and at no point holds a temporary file or directory.
C14_UnparseableLocationNoTempFiles ==
    \A i \in 1..Len(runs) :
        ~ParseLocation(runs[i].file_url).ok =>
            /\ runs[i].pc \in {"scheduled", "locate", "done"}
            /\ runs[i].log = <<>>
            /\ runs[i].failed_at = "none"
            /\ runs[i].temp = {}

----------------------------------------------------------------------------
(* C15 *)

\* C15: a run is at the fetch only with a bucket and a key that are both
\* non-empty; any other location has ended the run in the parse.
C15_FetchWithBucketAndKey ==
    \A i \in 1..Len(runs) :
        LET ref == ParseLocation(runs[i].file_url)
        IN  /\ runs[i].pc = "fetch" =>
                  ref.ok /\ ref.bucket # <<>> /\ ref.key # <<>>
            /\ (~ref.ok \/ ref.bucket = <<>> \/ ref.key = <<>>) =>
                  /\ runs[i].log = <<>>
                  /\ runs[i].failed_at = "none"

----------------------------------------------------------------------------
(* What C16 to C20 say of one call, stated without the loops of the code *)

\* The n-th smallest element of a set of numbers.
Nth(S, n) == CHOOSE x \in S : Cardinality({y \in S : y < x}) = n - 1

\* The elements of seq at the positions in S, in order.
AtPositions(seq, S) == [n \in 1..Cardinality(S) |-> seq[Nth(S, n)]]

\* The last position of the chunk that starts at position first, when
\* chunks start at the positions in starts.
ChunkEnd(starts, first, len) ==
    IF \E x \in starts : x > first
    THEN Min({x \in starts : x > first}) - 1
    ELSE len

\* texts[from] .. texts[to] joined by single spaces.
RECURSIVE JoinTexts(_, _, _)
JoinTexts(texts, from, to) ==
    IF from = to THEN texts[from]
    ELSE JoinTexts(texts, from, to - 1) \o <<" ">> \o texts[to]

\* The words at which the claim starts a segment: the first one and those
\* more than one second after the end of the word before, which is the end
\* of the current segment.
GroupingStarts(words) ==
    {k \in 1..Len(words) :
        k = 1 \/ words[k].start - words[k - 1].end > SegmentGapMs}

\* The segments the claim gives for a word sequence.
GroupingClaimed(words, speaker) ==
    LET starts == GroupingStarts(words)
        texts  == [k \in 1..Len(words) |-> <<words[k].text>>]
    IN  [n \in 1..Cardinality(starts) |->
            LET first == Nth(starts, n)
                last  == ChunkEnd(starts, first, Len(words))
            IN  [speaker |-> speaker,
                 t_start |-> words[first].start,
                 t_end   |-> words[last].end,
                 text    |-> JoinTexts(texts, first, last)]]

\* The segments at which the claim starts an output segment in the second
\* pass: the first one and those not merged, a segment being merged iff it
\* has the speaker of the segment before and starts less than one second
\* after that segment's end, which is the current end of the preceding
\* output segment.
SecondPassStarts(segs) ==
    {k \in 1..Len(segs) :
        \/ k = 1
        \/ segs[k].speaker # segs[k - 1].speaker
        \/ segs[k].t_start - segs[k - 1].t_end >= MergeGapMs}

\* The output the claim gives for the second pass over segs.
SecondPassClaimed(segs) ==
    LET starts == SecondPassStarts(segs)
        texts  == [k \in 1..Len(segs) |-> segs[k].text]
    IN  [n \in 1..Cardinality(starts) |->
            LET first == Nth(starts, n)
                last  == ChunkEnd(starts, first, Len(segs))
            IN  [segs[first] EXCEPT !.t_end = segs[last].t_end,
                                    !.text = JoinTexts(texts, first, last)]]

\* Two segments are duplicates of each other.
Duplicates(a, b) ==
    /\ Round2(a.t_start) = Round2(b.t_start)
    /\ Round2(a.t_end) = Round2(b.t_end)
    /\ Strip(a.text) = Strip(b.text)

\* The positions of the segments that are the first of their duplicates.
FirstOfDuplicates(segs) ==
    {i \in 1..Len(segs) : ~\E j \in 1..(i - 1) : Duplicates(segs[j], segs[i])}

SortedByStart(segs) ==
    \A k \in 1..(Len(segs) - 1) : segs[k].t_start <= segs[k + 1].t_start

Range(seq) == {seq[k] : k \in 1..Len(seq)}

----------------------------------------------------------------------------
(* C16 *)

\* C16: the grouping starts a segment at a word iff it is the first word
\* or begins more than 1.0 s after the current segment's end (exactly
\* 1.0 s continues the segment); any other word extends the current
\* segment to its end and appends its text after a space.
C16_NewSegmentIffGapAboveOneSecond ==
    (call.fn = "group" /\ call.stage = "returned") =>
        call.segments = GroupingClaimed(call.words, "ai")

----------------------------------------------------------------------------
(* C17 *)

\* C17: what the merger returns is non-decreasing in start time.
C17_OutputSortedByStart ==
    (call.fn = "merge" /\ call.stage \in {"returned", "rerun"}) =>
        SortedByStart(call.merged)

\* The merger has returned two segments or more for inputs whose
\* concatenation was not in order of start time.
C17_Witness ==
    /\ call.fn = "merge" /\ call.stage = "returned"
    /\ ~SortedByStart(call.agent_segments \o call.human_segments)
    /\ Len(call.merged) >= 2

----------------------------------------------------------------------------
(* C18 *)

----------------------------------------------------------------------------
(* C19 *)

----------------------------------------------------------------------------
(* C20 *)

----------------------------------------------------------------------------
(* C21 *)

SegmentWellFormed(seg) ==
    /\ 0 <= seg.t_start
    /\ seg.t_start <= seg.t_end
    /\ seg.text # <<>>

\* C21: every segment the grouping returns and every segment the merger
\* returns (on its first call and on a call on its own output) has
\* 0 <= start <= end and a non-empty text, when the words have
\* 0 <= start <= end and arrive in chronological order and the channel
\* lists hold such segments.
C21_SegmentsWellFormed ==
    /\ \A k \in 1..Len(call.segments) : SegmentWellFormed(call.segments[k])
    /\ \A k \in 1..Len(call.merged) : SegmentWellFormed(call.merged[k])
    /\ \A k \in 1..Len(call.again) : SegmentWellFormed(call.again[k])

\* The grouping has returned two segments, the first one made of two
\* words: its end is the end of the second word.
C21_Witness ==
    /\ call.fn = "group" /\ call.stage = "returned"
    /\ Len(call.words) = 3 /\ Len(call.segments) = 2
    /\ Len(call.segments[1].text) = 3
    /\ call.segments[1].t_start = call.words[1].start
    /\ call.segments[1].t_end = call.words[2].end
    /\ call.segments[1].t_end > call.words[1].end

----------------------------------------------------------------------------
(* C22 *)

Requested(request) == \E k \in 1..Len(requests) : requests[k] = request
TimesRequested(api) ==
    Cardinality({k \in 1..Len(requests) : requests[k].api = api})

----------------------------------------------------------------------------
(* C23 *)

\* The call is answered: the SIP participant is in the room with
\* callStatus 'active', or the browser participant is in the room.
CallAnswered ==
    /\ participant.present
    /\ participant.kind = "sip" => participant.callStatus = "active"

\* C23: whatever the room metadata (initial_greeting included), when
\* recording is configured and the call is answered while the agent's
\* session is running, the start of the dual-channel recording is
\* eventually requested.
C23_AnsweredCallIsRecorded ==
    (RECORDING_ENABLED /\ entry = "scanned" /\ CallAnswered)
        ~> Requested(StartEgress)

----------------------------------------------------------------------------
(* C24 *)

Before(first, second) ==
    \E k, l \in 1..Len(requests) :
        k < l /\ requests[k] = first /\ requests[l] = second

\* C24: in every interleaving of the greeting task with the disconnect
\* handler, if the platform has started a recording egress for the session
\* and the room deletion has been requested, then a StopEgress for that
\* egress id was requested before the room deletion.
C24_StopEgressBeforeDeleteRoom ==
    \A id \in egresses :
        Requested(DeleteRoom) => Before(StopEgress(id), DeleteRoom)

----------------------------------------------------------------------------
(* C25 *)

TasksOf(fn) == {i \in 1..Len(tasks) : tasks[i].fn = fn}

\* C25: however many greeting tasks the handlers and the scan create and
\* in whatever order they are resumed, the body of greet_participant runs
\* at most once: at most one greeting task is past the greeting_said test,
\* the recording start is requested at most once and the greeting is
\* asked for at most once.
C25_GreetingBodyAtMostOnce ==
    /\ Cardinality({i \in TasksOf("greet") :
                       tasks[i].pc \in {"start_egress", "generate_reply"}}) <= 1
    /\ TimesRequested("StartEgress") <= 1
    /\ TimesRequested("GenerateReply") <= 1

\* Three greeting tasks have been created and have ended; the recording
\* was requested once and the greeting once.
C25_Witness ==
    /\ Cardinality(TasksOf("greet")) >= 3
    /\ \A i \in TasksOf("greet") : tasks[i].pc = "done"
    /\ TimesRequested("StartEgress") = 1
    /\ TimesRequested("GenerateReply") = 1

----------------------------------------------------------------------------
(* C26 *)

\* C26: the room deletion of stop_egress_and_cleanup is never requested
\* twice, and once on_participant_disconnected has run for the first time
\* it is eventually requested, whether the StopEgress request returned,
\* raised or was skipped.
C26_RoomDeletedExactlyOnce ==
    /\ [](TimesRequested("DeleteRoom") <= 1)
    /\ (TasksOf("cleanup") # {}) ~> (TimesRequested("DeleteRoom") = 1)

\* Two disconnections have been handled; the StopEgress request of the
\* first raised and the room deletion was requested once.
C26_Witness ==
    /\ Cardinality(TasksOf("cleanup")) >= 2
    /\ \A i \in TasksOf("cleanup") : tasks[i].pc = "done"
    /\ \E i \in TasksOf("cleanup") : tasks[i].stop = "raised"
    /\ TimesRequested("DeleteRoom") = 1

----------------------------------------------------------------------------
(* C27 *)

\* C27: an accepted egress_ended notification with zero file results has
\* its identifier in ProcessedSet, and every later notification for the
\* same identifier, with file results or without, is answered
\* duplicate_ignored and schedules no run.
C27_ZeroFileIdentifierStaysProcessed ==
    \A k \in ZeroFileDeliveries :
        responses[k].accepted =>
            /\ responses[k].body.egress_id \in processed_egresses
            /\ \A j \in DeliveriesOf(responses[k].body.egress_id) :
                   j > k =>
                       /\ responses[j].message = "duplicate_ignored"
                       /\ ~responses[j].accepted
                       /\ RunsBy(j) = {}

\* A zero-file notification for EG_1 was accepted, and a later one for
\* EG_1 with a located file was discarded.
C27_Witness ==
    \E k \in ZeroFileDeliveries, j \in DeliveriesOf("EG_1") :
        /\ k < j
        /\ responses[k].accepted /\ responses[k].body.egress_id = "EG_1"
        /\ responses[j].body.file_results = <<FileAt(S3Url)>>
        /\ responses[j].message = "duplicate_ignored"
        /\ runs = <<>>

----------------------------------------------------------------------------
(* C28 *)

\* C28: an egress_ended notification without identifier is deduplicated
\* under the missing value: once one has been accepted, the missing value
\* is in ProcessedSet and every later notification without identifier is
\* answered duplicate_ignored and schedules no run, whatever its room name
\* and file results.
C28_IdentifierLessDeduplicated ==
    \A k \in DeliveriesOf(NoEgressId) :
        responses[k].accepted =>
            /\ NoEgressId \in processed_egresses
            /\ \A j \in DeliveriesOf(NoEgressId) :
                   j > k =>
                       /\ responses[j].message = "duplicate_ignored"
                       /\ ~responses[j].accepted
                       /\ RunsBy(j) = {}

\* A notification without identifier, for another room and with a located
\* file, was discarded after a zero-file one without identifier had been
\* accepted.
C28_Witness ==
    \E k, j \in DeliveriesOf(NoEgressId) :
        /\ k < j
        /\ responses[k].accepted
        /\ responses[k].body.room_name # responses[j].body.room_name
        /\ responses[k].body.file_results = <<>>
        /\ responses[j].body.file_results = <<FileAt(S3Url)>>
        /\ responses[j].message = "duplicate_ignored"

----------------------------------------------------------------------------
(* C29 *)

\* The locations of the file results that have a non-empty one, in order.
LocatedUrls(file_results) ==
    LET located == SelectSeq(file_results, LAMBDA f : f.location # <<>>)
    IN  [k \in 1..Len(located) |-> located[k].location]

C29_Step ==
    Len(responses') = Len(responses) + 1 =>
        LET response == Last(responses')
            added == SubSeq(runs', Len(runs) + 1, Len(runs'))
        IN  /\ response.accepted =>
                   [k \in 1..Len(added) |-> added[k].file_url] =
                       LocatedUrls(response.body.file_results)
            /\ (response.body.isdict /\ response.body.event # "egress_ended") =>
                   /\ runs' = runs
                   /\ processed_egresses' = processed_egresses

\* C29: the handler that accepts an egress_ended notification schedules
\* exactly one run for each file result with a non-empty location, in
\* order, and none for a file result whose location is empty or missing;
\* a notification of another event type schedules no run and leaves
\* ProcessedSet unchanged.
C29_OneRunPerLocatedFile == [][C29_Step]_vars

====
